---- MODULE Spec2Model ----
(***************************************************************************)
(* DoorBirdPy: the schedule model (doorbirdpy/schedule_entry.py) and the   *)
(* device client (doorbirdpy/__init__.py).                                 *)
(*                                                                         *)
(* Python values are tagged records: [t |-> "None"], [t |-> "bool", v],    *)
(* [t |-> "int", v], [t |-> "float", v, frac], [t |-> "str", v] with v a   *)
(* sequence of one-character strings, [t |-> "dict", v] with v a function  *)
(* from keys, [t |-> "list", v] with v a sequence.  Identifiers that the   *)
(* code only stores and copies (input, param, event) are plain strings.    *)
(* A call that may raise returns [exc |-> <exception or "None">, v |-> _]. *)
(***************************************************************************)
EXTENDS Integers, Sequences, FiniteSets, TLC

VARIABLES
    entry,      \* the DoorBirdScheduleEntry the caller holds, or None
    origin,     \* "none", "ctor" (built by the constructors) or "parse"
    hist,       \* per output: the constructor and mutator calls made on it
    raw,        \* the device JSON handed to DoorBirdScheduleEntry.parse
    result,     \* what that parse returned or raised
    exported,   \* entry.export, or None before the caller reads it
    reparsed,   \* DoorBirdScheduleEntry.parse(exported), or None
    calls,      \* network operations of DoorBird invoked so far
    requests,   \* requests handed to self._http.request so far
    last        \* the last client operation: its arguments, responses, URL, outcome

vars == <<entry, origin, hist, raw, result, exported, reparsed, calls, requests, last>>
schedVars == <<entry, origin, hist, raw, result, exported, reparsed>>
clientVars == <<calls, requests, last>>

\* ------------------------------------------------------------------ bounds
\* outputs plus ranges of one schedule entry
MaxSize == 3
\* network operations invoked in one run
MaxCalls == 2

\* ----------------------------------------------------------- Python values
None == [t |-> "None"]
PyBool(b) == [t |-> "bool", v |-> b]
PyNum(n) == [t |-> "int", v |-> n]
PyFloat(w, f) == [t |-> "float", v |-> w, frac |-> f]
PyStr(s) == [t |-> "str", v |-> s]
PyDict(d) == [t |-> "dict", v |-> d]
PyList(l) == [t |-> "list", v |-> l]
EmptyDict == [k \in {} |-> None]

Ok(v) == [exc |-> "None", v |-> v]
Raise(e) == [exc |-> e, v |-> None]

\* F applied to the value of e: `y = e; ... F(y)`, with e evaluated once
Then(e, F(_)) == CHOOSE z \in {F(y) : y \in {e}} : TRUE

\* bool(x) and the truth test of `if x:`
Truthy(x) ==
    CASE x.t = "None" -> FALSE
      [] x.t = "bool" -> x.v
      [] x.t = "int" -> x.v # 0
      [] x.t = "float" -> x.v # 0 \/ x.frac # 0
      [] x.t = "str" -> Len(x.v) # 0
      [] x.t = "name" -> x.v # ""
      [] x.t = "dict" -> DOMAIN x.v # {}
      [] x.t = "list" -> Len(x.v) # 0

DigitChars == <<"0", "1", "2", "3", "4", "5", "6", "7", "8", "9">>
IsDigit(c) == \E i \in 1..10 : DigitChars[i] = c
DigitVal(c) == (CHOOSE i \in 1..10 : DigitChars[i] = c) - 1
IsSpace(c) == c \in {" ", "\n", "\r"}

RECURSIVE LStrip(_)
LStrip(s) == IF Len(s) > 0 /\ IsSpace(Head(s)) THEN LStrip(Tail(s)) ELSE s
RECURSIVE RStrip(_)
RStrip(s) ==
    IF Len(s) > 0 /\ IsSpace(s[Len(s)]) THEN RStrip(SubSeq(s, 1, Len(s) - 1)) ELSE s

RECURSIVE DigitsValue(_)
DigitsValue(s) ==
    IF Len(s) = 0 THEN 0
    ELSE 10 * DigitsValue(SubSeq(s, 1, Len(s) - 1)) + DigitVal(s[Len(s)])

\* int(s) of a str: optional surrounding whitespace, an optional sign, decimal digits
IntOfChars(s) ==
    LET body == RStrip(LStrip(s))
        signed == Len(body) > 0 /\ body[1] \in {"+", "-"}
        digits == IF signed THEN Tail(body) ELSE body
    IN  IF Len(digits) = 0 \/ \E i \in 1..Len(digits) : ~IsDigit(digits[i])
        THEN Raise("ValueError")
        ELSE Ok(IF signed /\ body[1] = "-" THEN 0 - DigitsValue(digits)
                ELSE DigitsValue(digits))

\* int(x)
PyInt(x) ==
    CASE x.t = "int" -> Ok(x.v)
      [] x.t = "bool" -> Ok(IF x.v THEN 1 ELSE 0)
      [] x.t = "float" -> Ok(x.v)
      [] x.t = "str" -> IntOfChars(x.v)
      [] OTHER -> Raise("TypeError")

RECURSIVE NatChars(_)
NatChars(n) ==
    IF n < 10 THEN <<DigitChars[n + 1]>>
    ELSE Append(NatChars(n \div 10), DigitChars[(n % 10) + 1])

\* str(n) of an int
IntStr(n) == PyStr(IF n < 0 THEN <<"-">> \o NatChars(0 - n) ELSE NatChars(n))

\* ------------------------------------------- DoorBirdScheduleEntrySchedule
\* __init__: the three fields start unset
NewSchedule == [once |-> None, from_to |-> None, weekdays |-> None]

\* set_once(enabled)
set_once(self, enabled) ==
    [self EXCEPT !.once = PyDict([valid |-> IF Truthy(enabled) THEN 1 ELSE 0])]

\* the {"from": str(int(sec_from)), "to": str(int(sec_to))} literal of both adders
RangeDict(sec_from, sec_to) ==
    LET a == PyInt(sec_from)
        b == PyInt(sec_to)
    IN  IF a.exc # "None" THEN Raise(a.exc)
        ELSE IF b.exc # "None" THEN Raise(b.exc)
        ELSE Ok(PyDict([from |-> IntStr(a.v), to |-> IntStr(b.v)]))

\* add_range with the list replaced on every call instead of only when unset
add_range_reset(self, sec_from, sec_to) ==
    LET s1 == [self EXCEPT !.from_to = PyList(<<>>)]
        d == RangeDict(sec_from, sec_to)
    IN  IF d.exc # "None" THEN [exc |-> d.exc, v |-> s1]
        ELSE Ok([s1 EXCEPT !.from_to = PyList(Append(s1.from_to.v, d.v))])

\* add_range(sec_from, sec_to): the list is created first, then the range appended;
\* a conversion error leaves the created list behind
add_range(self, sec_from, sec_to) ==
    LET s1 == IF ~Truthy(self.from_to) THEN [self EXCEPT !.from_to = PyList(<<>>)]
              ELSE self
        d == RangeDict(sec_from, sec_to)
    IN  IF d.exc # "None" THEN [exc |-> d.exc, v |-> s1]
        ELSE Ok([s1 EXCEPT !.from_to = PyList(Append(s1.from_to.v, d.v))])

\* add_weekday(sec_from, sec_to)
add_weekday(self, sec_from, sec_to) ==
    LET s1 == IF ~Truthy(self.weekdays) THEN [self EXCEPT !.weekdays = PyList(<<>>)]
              ELSE self
        d == RangeDict(sec_from, sec_to)
    IN  IF d.exc # "None" THEN [exc |-> d.exc, v |-> s1]
        ELSE Ok([s1 EXCEPT !.weekdays = PyList(Append(s1.weekdays.v, d.v))])

\* the keys export writes: one per field that passes `if self.<field>:`
ExportKeys(self) ==
    {k \in {"once", "from-to", "weekdays"} :
        \/ k = "once" /\ Truthy(self.once)
        \/ k = "from-to" /\ Truthy(self.from_to)
        \/ k = "weekdays" /\ Truthy(self.weekdays)}

\* export (property)
ScheduleExport(self) ==
    PyDict([k \in ExportKeys(self) |->
        CASE k = "once" -> self.once
          [] k = "from-to" -> PyList([i \in 1..Len(self.from_to.v) |-> self.from_to.v[i]])
          [] k = "weekdays" -> PyList([i \in 1..Len(self.weekdays.v) |-> self.weekdays.v[i]])])

\* the loop `for from_to in data["from-to"]: schedule.add_range(...)`, from item i on
RECURSIVE ParseRanges(_, _, _)
ParseRanges(r, items, i) ==
    IF r.exc # "None" \/ i > Len(items) THEN r
    ELSE IF {"from", "to"} \ DOMAIN items[i].v # {} THEN [exc |-> "KeyError", v |-> r.v]
    ELSE Then(add_range(r.v, items[i].v["from"], items[i].v["to"]),
              LAMBDA n : ParseRanges(n, items, i + 1))

\* the loop `for weekday in data["weekdays"]: schedule.add_weekday(int(..), int(..))`
RECURSIVE ParseWeekdays(_, _, _)
ParseWeekdays(r, items, i) ==
    IF r.exc # "None" \/ i > Len(items) THEN r
    ELSE IF {"from", "to"} \ DOMAIN items[i].v # {} THEN [exc |-> "KeyError", v |-> r.v]
    ELSE Then(PyInt(items[i].v["from"]), LAMBDA a :
         Then(PyInt(items[i].v["to"]), LAMBDA b :
            IF a.exc # "None" THEN [exc |-> a.exc, v |-> r.v]
            ELSE IF b.exc # "None" THEN [exc |-> b.exc, v |-> r.v]
            ELSE Then(add_weekday(r.v, PyNum(a.v), PyNum(b.v)),
                      LAMBDA n : ParseWeekdays(n, items, i + 1))))

\* parse with `once` read by data.get("once"), so set even when the key is absent
ScheduleParseGet(data) ==
    Then(set_once(NewSchedule,
                  PyBool("once" \in DOMAIN data.v /\ Truthy(data.v["once"]))), LAMBDA s1 :
    Then(IF "from-to" \in DOMAIN data.v
         THEN ParseRanges(Ok(s1), data.v["from-to"].v, 1)
         ELSE Ok(s1), LAMBDA r2 :
        IF r2.exc # "None" THEN Raise(r2.exc)
        ELSE IF "weekdays" \in DOMAIN data.v
        THEN Then(ParseWeekdays(r2, data.v["weekdays"].v, 1), LAMBDA r3 :
                IF r3.exc # "None" THEN Raise(r3.exc) ELSE r3)
        ELSE r2))

\* parse(data) (static)
ScheduleParse(data) ==
    Then(IF "once" \in DOMAIN data.v
         THEN set_once(NewSchedule, PyBool(Truthy(data.v["once"])))
         ELSE NewSchedule, LAMBDA s1 :
    Then(IF "from-to" \in DOMAIN data.v
         THEN ParseRanges(Ok(s1), data.v["from-to"].v, 1)
         ELSE Ok(s1), LAMBDA r2 :
        IF r2.exc # "None" THEN Raise(r2.exc)
        ELSE IF "weekdays" \in DOMAIN data.v
        THEN Then(ParseWeekdays(r2, data.v["weekdays"].v, 1), LAMBDA r3 :
                IF r3.exc # "None" THEN Raise(r3.exc) ELSE r3)
        ELSE r2))

\* --------------------------------------------- DoorBirdScheduleEntryOutput
\* __init__(enabled=True, event=None, param="", schedule=None), schedule left out
NewOutput(enabled, event, param) ==
    [enabled |-> enabled, event |-> event, param |-> param, schedule |-> NewSchedule]

\* export (property)
OutputExport(self) ==
    PyDict([enabled |-> PyStr(IF Truthy(self.enabled) THEN <<"1">> ELSE <<"0">>),
            event |-> self.event,
            param |-> self.param,
            schedule |-> ScheduleExport(self.schedule)])

\* parse(data) (static): the keyword arguments are evaluated in order
OutputParse(data) ==
    LET enabled == IF "enabled" \in DOMAIN data.v
                   THEN PyBool(Truthy(data.v["enabled"]))
                   ELSE PyBool(FALSE)
    IN  IF {"event", "param", "schedule"} \ DOMAIN data.v # {} THEN Raise("KeyError")
        ELSE Then(ScheduleParse(data.v["schedule"]), LAMBDA s :
                IF s.exc # "None" THEN Raise(s.exc)
                ELSE Ok([enabled |-> enabled, event |-> data.v["event"],
                         param |-> data.v["param"], schedule |-> s.v]))

\* --------------------------------------------------- DoorBirdScheduleEntry
\* __init__(input, param="")
NewEntry(input, param) ==
    [t |-> "entry", input |-> input, param |-> param, output |-> <<>>]

\* export (property)
EntryExport(self) ==
    PyDict([input |-> self.input,
            param |-> self.param,
            output |-> PyList([i \in 1..Len(self.output) |-> OutputExport(self.output[i])])])

\* the loop `for output in data["output"]: entry.output.append(Output.parse(output))`
RECURSIVE ParseOutputs(_, _, _)
ParseOutputs(r, items, i) ==
    IF r.exc # "None" \/ i > Len(items) THEN r
    ELSE Then(OutputParse(items[i]), LAMBDA o :
            IF o.exc # "None" THEN Raise(o.exc)
            ELSE Then(Ok([r.v EXCEPT !.output = Append(@, o.v)]),
                      LAMBDA n : ParseOutputs(n, items, i + 1)))

\* parse(data) (static)
EntryParse(data) ==
    IF {"input", "param"} \ DOMAIN data.v # {} THEN Raise("KeyError")
    ELSE IF "output" \notin DOMAIN data.v THEN Raise("KeyError")
    ELSE ParseOutputs(Ok(NewEntry(data.v["input"], data.v["param"])), data.v["output"].v, 1)

\* ------------------------------------------------ the caller's sample inputs
Inputs == {"doorbell", "motion"}
Params == {"", "1"}
Events == {"relay"}
\* (sec_from, sec_to) arguments: ints, a float, and the strings a device sends
RangeArgs ==
    <<  <<PyNum(1000), PyNum(2000)>>,
        <<PyFloat(7, 5), PyStr(<<"0", "4", "2">>)>>  >>
\* values a device sends under "enabled"
EnabledVals == <<PyStr(<<"1">>), PyStr(<<"0">>), PyBool(FALSE)>>

Unset == [exc |-> "unset", v |-> None]
NewHist(given) == [enabledGiven |-> given, once |-> FALSE, ranges |-> <<>>, weekdays |-> <<>>]

RECURSIVE SumRanges(_, _)
SumRanges(outs, i) ==
    IF i > Len(outs) THEN 0
    ELSE (IF outs[i].schedule.from_to.t = "list" THEN Len(outs[i].schedule.from_to.v) ELSE 0)
         + (IF outs[i].schedule.weekdays.t = "list" THEN Len(outs[i].schedule.weekdays.v) ELSE 0)
         + SumRanges(outs, i + 1)
Size(e) == Len(e.output) + SumRanges(e.output, 1)

Building == origin = "ctor" /\ exported.t = "None"

\* ---------------------------------------------------- device JSON for parse
RawRange(k) ==
    PyDict([from |-> IntStr(PyInt(RangeArgs[k][1]).v), to |-> IntStr(PyInt(RangeArgs[k][2]).v)])

RawSchedule(keys, valid) ==
    PyDict([k \in keys |->
        CASE k = "once" -> PyDict([valid |-> valid])
          [] k = "from-to" -> PyList(<<RawRange(1), RawRange(2)>>)
          [] k = "weekdays" -> PyList(<<RawRange(2)>>)])

\* an output object without the key `drop` ("none" drops nothing)
RawOutput(drop, en, event, sched) ==
    PyDict([k \in {"enabled", "event", "param", "schedule"} \ {drop} |->
        CASE k = "enabled" -> en
          [] k = "event" -> event
          [] k = "param" -> ""
          [] k = "schedule" -> sched])

\* an entry object without the key `drop`
RawEntry(drop, input, outs) ==
    PyDict([k \in {"input", "param", "output"} \ {drop} |->
        CASE k = "input" -> input
          [] k = "param" -> ""
          [] k = "output" -> PyList(outs)])

\* --------------------------------------------------------- schedule actions
\* entry = DoorBirdScheduleEntry(input, param)
Construct ==
    /\ origin = "none"
    /\ \E input \in Inputs, param \in Params :
         entry' = NewEntry(input, param)
    /\ origin' = "ctor"
    /\ hist' = <<>>
    /\ UNCHANGED <<raw, result, exported, reparsed, clientVars>>

\* entry.output.append(DoorBirdScheduleEntryOutput([enabled,] event=..., param=...))
AppendOutput ==
    /\ Building
    /\ Size(entry) < MaxSize
    /\ \E given \in BOOLEAN, enabled \in BOOLEAN, event \in Events :
         /\ given \/ enabled
         /\ entry' = [entry EXCEPT !.output =
                         Append(@, NewOutput(PyBool(enabled), event, ""))]
         /\ hist' = Append(hist, NewHist(given))
    /\ UNCHANGED <<origin, raw, result, exported, reparsed, clientVars>>

\* entry.output[i].schedule.set_once(b)
SetOnce ==
    /\ Building
    /\ \E i \in 1..Len(entry.output), b \in BOOLEAN :
         /\ entry' = [entry EXCEPT !.output[i].schedule = set_once(@, PyBool(b))]
         /\ hist' = [hist EXCEPT ![i].once = TRUE]
    /\ UNCHANGED <<origin, raw, result, exported, reparsed, clientVars>>

\* entry.output[i].schedule.add_range(sec_from, sec_to)
AddRange ==
    /\ Building
    /\ Size(entry) < MaxSize
    /\ \E i \in 1..Len(entry.output), k \in 1..Len(RangeArgs) :
         \E r \in {add_range(entry.output[i].schedule, RangeArgs[k][1], RangeArgs[k][2])} :
             /\ entry' = [entry EXCEPT !.output[i].schedule = r.v]
             /\ hist' = IF r.exc = "None" THEN [hist EXCEPT ![i].ranges = Append(@, k)]
                        ELSE hist
    /\ UNCHANGED <<origin, raw, result, exported, reparsed, clientVars>>

\* entry.output[i].schedule.add_weekday(sec_from, sec_to)
AddWeekday ==
    /\ Building
    /\ Size(entry) < MaxSize
    /\ \E i \in 1..Len(entry.output), k \in 1..Len(RangeArgs) :
         \E r \in {add_weekday(entry.output[i].schedule, RangeArgs[k][1], RangeArgs[k][2])} :
             /\ entry' = [entry EXCEPT !.output[i].schedule = r.v]
             /\ hist' = IF r.exc = "None" THEN [hist EXCEPT ![i].weekdays = Append(@, k)]
                        ELSE hist
    /\ UNCHANGED <<origin, raw, result, exported, reparsed, clientVars>>

\* entry = DoorBirdScheduleEntry.parse(data) on JSON from a device: a complete
\* first output, optionally, and then one that varies
ParseDevice ==
    /\ origin = "none"
    /\ \E dropE \in {"none", "input", "param", "output"},
          dropO \in {"none", "enabled", "event", "param", "schedule"},
          e \in 1..Len(EnabledVals), keys \in SUBSET {"once", "from-to", "weekdays"},
          valid \in 0..1, two \in BOOLEAN, input \in Inputs :
         LET varied == RawOutput(dropO, EnabledVals[e], "relay", RawSchedule(keys, valid))
             full == RawOutput("none", EnabledVals[1], "http", RawSchedule({"once"}, 1))
         IN  \E data \in {RawEntry(dropE, input, IF two THEN <<full, varied>> ELSE <<varied>>)} :
             \E r \in {EntryParse(data)} :
                /\ raw' = data
                /\ result' = r
                /\ entry' = IF r.exc = "None" THEN r.v ELSE None
    /\ origin' = "parse"
    /\ hist' = <<>>
    /\ UNCHANGED <<exported, reparsed, clientVars>>

\* exported = entry.export
Export ==
    /\ entry.t = "entry"
    /\ exported.t = "None"
    /\ exported' = EntryExport(entry)
    /\ UNCHANGED <<entry, origin, hist, raw, result, reparsed, clientVars>>

\* reparsed = DoorBirdScheduleEntry.parse(exported)
Reparse ==
    /\ exported.t = "dict"
    /\ reparsed.exc = "unset"
    /\ reparsed' = EntryParse(exported)
    /\ UNCHANGED <<entry, origin, hist, raw, result, exported, clientVars>>

\* ---------------------------------------------------------------- DoorBird
Name(s) == [t |-> "name", v |-> s]
Tuple(s) == [t |-> "tuple", v |-> s]
Bha(d) == PyDict([BHA |-> d])

\* x[key] with a str key
GetKey(x, key) ==
    IF x.t = "dict" THEN (IF key \in DOMAIN x.v THEN Ok(x.v[key]) ELSE Raise("KeyError"))
    ELSE Raise("TypeError")

\* x[n] with an int index n >= 0
GetIndex(x, n) ==
    CASE x.t = "list" -> IF n < Len(x.v) THEN Ok(x.v[n + 1]) ELSE Raise("IndexError")
      [] x.t = "dict" -> Raise("KeyError")
      [] OTHER -> Raise("TypeError")

\* s.split(sep) for a one-character sep
RECURSIVE Split(_, _)
Split(s, sep) ==
    IF \A i \in 1..Len(s) : s[i] # sep THEN <<s>>
    ELSE LET i == CHOOSE j \in 1..Len(s) : s[j] = sep /\ \A k \in 1..(j - 1) : s[k] # sep
         IN  <<SubSeq(s, 1, i - 1)>> \o Split(SubSeq(s, i + 1, Len(s)), sep)

\* the transport's answers: response["status"] and the content
Statuses == <<PyStr(<<"2", "0", "0">>), PyStr(<<"4", "0", "1">>)>>
\* sample contents, each with what json.loads makes of it
Bodies ==
    <<
        [text |-> <<"{", "\"", "B", "H", "A", "\"", ":", "{", "\"", "R", "E", "T",
                 "U", "R", "N", "C", "O", "D", "E", "\"", ":", "\"", "1", "\"", "}",
                 "}">>,
         json |-> Ok(Bha(PyDict([RETURNCODE |-> PyStr(<<"1">>)])))],
        [text |-> <<"{", "\"", "B", "H", "A", "\"", ":", "{", "\"", "R", "E", "T",
                 "U", "R", "N", "C", "O", "D", "E", "\"", ":", "\"", "0", "\"", "}",
                 "}">>,
         json |-> Ok(Bha(PyDict([RETURNCODE |-> PyStr(<<"0">>)])))],
        [text |-> <<"{", "\"", "B", "H", "A", "\"", ":", "{", "\"", "R", "E", "T",
                 "U", "R", "N", "C", "O", "D", "E", "\"", ":", "2", "}", "}">>,
         json |-> Ok(Bha(PyDict([RETURNCODE |-> PyNum(2)])))],
        [text |-> <<"{", "\"", "B", "H", "A", "\"", ":", "{", "\"", "R", "E", "T",
                 "U", "R", "N", "C", "O", "D", "E", "\"", ":", "\"", "x", "\"", "}",
                 "}">>,
         json |-> Ok(Bha(PyDict([RETURNCODE |-> PyStr(<<"x">>)])))],
        [text |-> <<"{", "\"", "B", "H", "A", "\"", ":", "{", "}", "}">>,
         json |-> Ok(Bha(PyDict(EmptyDict)))],
        [text |-> <<"{", "}">>,
         json |-> Ok(PyDict(EmptyDict))],
        [text |-> <<"[", "]">>,
         json |-> Ok(PyList(<<>>))],
        [text |-> <<"{", "\"", "B", "H", "A", "\"", ":", "{", "\"", "V", "E", "R",
                 "S", "I", "O", "N", "\"", ":", "[", "{", "\"", "F", "I", "R", "M",
                 "W", "A", "R", "E", "\"", ":", "\"", "0", "0", "0", "1", "0", "9",
                 "\"", "}", "]", "}", "}">>,
         json |-> Ok(Bha(PyDict([VERSION |-> PyList(<<PyDict([FIRMWARE |-> Name("000109")])>>)])))],
        [text |-> <<"d", "o", "o", "r", "b", "e", "l", "l", "=", "1">>,
         json |-> Raise("ValueError")],
        [text |-> <<"d", "o", "o", "r", "b", "e", "l", "l", "=", "0">>,
         json |-> Raise("ValueError")],
        [text |-> <<"d", "o", "o", "r", "b", "e", "l", "l", "=">>,
         json |-> Raise("ValueError")],
        [text |-> <<"e", "r", "r", "o", "r">>,
         json |-> Raise("ValueError")],
        [text |-> <<"a", "=", "1", "=", "0">>,
         json |-> Raise("ValueError")],
        [text |-> <<"d", "o", "o", "r", "b", "e", "l", "l", "=", "1", "\r", "\n">>,
         json |-> Raise("ValueError")],
        [text |-> <<>>,
         json |-> Raise("ValueError")],
        [text |-> <<"[", "{", "\"", "i", "n", "p", "u", "t", "\"", ":", "\"", "d",
                 "o", "o", "r", "b", "e", "l", "l", "\"", ",", "\"", "p", "a", "r",
                 "a", "m", "\"", ":", "\"", "\"", ",", "\"", "o", "u", "t", "p",
                 "u", "t", "\"", ":", "[", "]", "}", "]">>,
         json |-> Ok(PyList(<<RawEntry("none", "doorbell", <<>>)>>))]
    >>
Responses == [s : 1..Len(Statuses), b : 1..Len(Bodies)]
NoResponse == [s |-> 0, b |-> 0]

\* json.loads(content.decode('utf-8'))
JsonLoads(r) == Bodies[r.b].json

\* str(v) as urlencode writes a value
StrOf(x) == IF x.t = "int" THEN IntStr(x.v) ELSE x
\* urlencode(args): the pairs in the dict's order
urlencode(args) == [i \in 1..Len(args) |-> [k |-> args[i].k, v |-> StrOf(args[i].v)]]
Arg(k, v) == [k |-> k, v |-> v]

\* __url(path, args=None, port=80, auth=True)
Url(path, args, port, auth) ==
    [userinfo |-> IF auth THEN "username:password" ELSE "",
     host |-> "ip",
     port |-> port,
     path |-> path,
     query |-> IF Len(args) > 0 THEN urlencode(args) ELSE <<>>]
DefaultPort == 80

\* one call of self._http.request(url, method, body)
Sent(url, method, body) == [url |-> url, method |-> method, body |-> body]
Get(url) == Sent(url, "GET", None)
\* what a handler did: the requests it made, and what it returned or raised
Outcome(sent, r) == [sent |-> sent, url |-> sent[1].url, exc |-> r.exc, ret |-> r.v]

\* int(data["BHA"]["RETURNCODE"]) on the result of __request
ReturnCode(data) ==
    IF data.exc # "None" THEN data
    ELSE Then(GetKey(data.v, "BHA"), LAMBDA bha :
            IF bha.exc # "None" THEN bha
            ELSE Then(GetKey(bha.v, "RETURNCODE"), LAMBDA code :
                    IF code.exc # "None" THEN code ELSE PyInt(code.v)))

\* ready(): one request for the status, then __request for the data
ready(r1, r2) ==
    LET url == Url("info.cgi", <<>>, DefaultPort, FALSE)
        status == PyNum(PyInt(Statuses[r1.s]).v)
    IN  Outcome(<<Get(url), Get(url)>>,
            Then(ReturnCode(JsonLoads(r2)), LAMBDA code :
                IF code.exc = "ValueError" THEN Ok(Tuple(<<PyBool(FALSE), status>>))
                ELSE IF code.exc # "None" THEN code
                ELSE Ok(Tuple(<<PyBool(code.v = 1), status>>))))

\* energize_relay with the return code tested for truth instead of compared to 1
energize_relay_truthy(relay, r) ==
    Outcome(<<Get(Url("open-door.cgi", <<Arg("r", relay)>>, DefaultPort, FALSE))>>,
        Then(ReturnCode(JsonLoads(r)), LAMBDA code :
            IF code.exc # "None" THEN code ELSE Ok(PyBool(code.v # 0))))

\* energize_relay(relay=1)
energize_relay(relay, r) ==
    Outcome(<<Get(Url("open-door.cgi", <<Arg("r", relay)>>, DefaultPort, FALSE))>>,
        Then(ReturnCode(JsonLoads(r)), LAMBDA code :
            IF code.exc # "None" THEN code ELSE Ok(PyBool(code.v = 1))))

\* turn_light_on()
turn_light_on(r) ==
    Outcome(<<Get(Url("light-on.cgi", <<>>, DefaultPort, FALSE))>>,
        Then(ReturnCode(JsonLoads(r)), LAMBDA code :
            IF code.exc # "None" THEN code ELSE Ok(PyBool(code.v = 1))))

\* DoorBirdScheduleEntry.parse_all(data): `for entry_data in data` walks a list's
\* items, or a dict's keys, which are strings that parse cannot index by name
RECURSIVE ParseAll(_, _, _)
ParseAll(r, items, i) ==
    IF r.exc # "None" \/ i > Len(items) THEN r
    ELSE Then(IF items[i].t = "dict" THEN EntryParse(items[i]) ELSE Raise("TypeError"),
              LAMBDA e :
                IF e.exc # "None" THEN e
                ELSE Then(Ok(PyList(Append(r.v.v, e.v))),
                          LAMBDA n : ParseAll(n, items, i + 1)))
parse_all(data) ==
    CASE data.t = "list" -> ParseAll(Ok(PyList(<<>>)), data.v, 1)
      [] data.t = "dict" -> IF DOMAIN data.v = {} THEN Ok(PyList(<<>>)) ELSE Raise("TypeError")
      [] OTHER -> Raise("TypeError")

\* schedule()
schedule(r) ==
    Outcome(<<Get(Url("schedule.cgi", <<>>, DefaultPort, FALSE))>>,
        Then(JsonLoads(r), LAMBDA data :
            IF data.exc # "None" THEN data ELSE parse_all(data.v)))

\* int(response["status"]) == 200
StatusOk(r) == PyBool(PyInt(Statuses[r.s]).v = 200)

\* change_schedule(entry): a POST whose body is the entry's export
change_schedule(e, r) ==
    Outcome(<<Sent(Url("schedule.cgi", <<>>, DefaultPort, FALSE), "POST", EntryExport(e))>>,
        Ok(Tuple(<<StatusOk(r), Statuses[r.s]>>)))

\* delete_schedule(event, param="")
delete_schedule(event, param, r) ==
    Outcome(<<Get(Url("schedule.cgi",
                      <<Arg("action", Name("remove")), Arg("input", event), Arg("param", param)>>,
                      DefaultPort, FALSE))>>,
        Ok(StatusOk(r)))

\* the body of doorbell_state() and motion_sensor_state() after the request:
\* int(content.split("=")[1]) == 1, with IndexError turned into False
SensorState(r) ==
    LET parts == Split(Bodies[r.b].text, "=")
    IN  Then(GetIndex(PyList([i \in 1..Len(parts) |-> PyStr(parts[i])]), 1), LAMBDA field :
            IF field.exc = "IndexError" THEN Ok(PyBool(FALSE))
            ELSE Then(PyInt(field.v), LAMBDA n :
                    IF n.exc # "None" THEN n ELSE Ok(PyBool(n.v = 1))))

\* doorbell_state()
doorbell_state(r) ==
    Outcome(<<Get(Url("monitor.cgi", <<Arg("check", Name("doorbell"))>>, DefaultPort, FALSE))>>,
        SensorState(r))

\* motion_sensor_state()
motion_sensor_state(r) ==
    Outcome(<<Get(Url("monitor.cgi", <<Arg("check", Name("motionsensor"))>>, DefaultPort, FALSE))>>,
        SensorState(r))

\* info(): data["BHA"]["VERSION"][0]
info(r) ==
    Outcome(<<Get(Url("info.cgi", <<>>, DefaultPort, FALSE))>>,
        Then(JsonLoads(r), LAMBDA data :
            IF data.exc # "None" THEN data
            ELSE Then(GetKey(data.v, "BHA"), LAMBDA bha :
                    IF bha.exc # "None" THEN bha
                    ELSE Then(GetKey(bha.v, "VERSION"), LAMBDA version :
                            IF version.exc # "None" THEN version
                            ELSE GetIndex(version.v, 0)))))

\* favorites()
favorites(r) ==
    Outcome(<<Get(Url("favorites.cgi", <<>>, DefaultPort, FALSE))>>, JsonLoads(r))

\* change_favorite(fav_type, title, value, fav_id=None)
change_favorite(fav_type, title, value, fav_id, r) ==
    LET args == <<Arg("action", Name("save")), Arg("type", fav_type),
                  Arg("title", title), Arg("value", value)>>
        withId == IF Truthy(fav_id)
                  THEN Append(args, Arg("id", PyNum(PyInt(fav_id).v)))
                  ELSE args
    IN  Outcome(<<Get(Url("favorites.cgi", withId, DefaultPort, FALSE))>>, Ok(StatusOk(r)))

\* delete_favorite(fav_type, fav_id)
delete_favorite(fav_type, fav_id, r) ==
    Outcome(<<Get(Url("favorites.cgi",
                      <<Arg("action", Name("remove")), Arg("type", fav_type), Arg("id", fav_id)>>,
                      DefaultPort, FALSE))>>,
        Ok(StatusOk(r)))

\* live_video_url, live_image_url, html5_viewer_url (properties)
live_video_url == Url("video.cgi", <<>>, DefaultPort, TRUE)
live_image_url == Url("image.cgi", <<>>, DefaultPort, TRUE)
html5_viewer_url == Url("view.html", <<>>, DefaultPort, TRUE)

\* history_image_url(index, event)
history_image_url(index, event) ==
    Url("history.cgi", <<Arg("index", index), Arg("event", event)>>, DefaultPort, TRUE)

\* the body of rtsp_live_video_url(self, http=False)
rtsp_live_video_url(http) == Url("mpeg/media.amp", <<>>, IF http THEN 8557 ELSE 554, TRUE)

\* the caller's sample arguments
FavIds == <<None, PyNum(0), PyNum(1), PyStr(<<"0">>), PyStr(<<"2">>)>>
Relays == <<PyNum(1), PyNum(2)>>
SampleEntries ==
    <<  NewEntry("doorbell", ""),
        [NewEntry("motion", "1") EXCEPT !.output = <<NewOutput(PyBool(FALSE), "relay", "")>>]  >>
NoArg == [none |-> TRUE]

\* ----------------------------------------------------------- client actions
NoLast ==
    [op |-> "none", arg |-> NoArg, r1 |-> NoResponse, r2 |-> NoResponse,
     sent |-> <<>>, url |-> None, exc |-> "None", ret |-> None]

\* a network operation ran: it made the requests out.sent, answered by r1 and r2
Network(op, arg, r1, r2, out) ==
    /\ calls' = calls + 1
    /\ requests' = requests + Len(out.sent)
    /\ last' = [op |-> op, arg |-> arg, r1 |-> r1, r2 |-> r2,
                sent |-> out.sent, url |-> out.url, exc |-> out.exc, ret |-> out.ret]
    /\ UNCHANGED schedVars

\* a URL was built and returned, with no request
Local(op, arg, url) ==
    [op |-> op, arg |-> arg, r1 |-> NoResponse, r2 |-> NoResponse,
     sent |-> <<>>, url |-> url, exc |-> "None", ret |-> None]

Ready ==
    /\ calls < MaxCalls
    /\ \E s1 \in 1..Len(Statuses), r2 \in Responses :
         \E r1 \in {[s |-> s1, b |-> r2.b]} :
         \E out \in {ready(r1, r2)} : Network("ready", NoArg, r1, r2, out)

EnergizeRelay ==
    /\ calls < MaxCalls
    /\ \E k \in 1..Len(Relays), r \in Responses :
         \E out \in {energize_relay(Relays[k], r)} :
            Network("energize_relay", [relay |-> Relays[k]], r, NoResponse, out)

TurnLightOn ==
    /\ calls < MaxCalls
    /\ \E r \in Responses :
         \E out \in {turn_light_on(r)} : Network("turn_light_on", NoArg, r, NoResponse, out)

Schedule ==
    /\ calls < MaxCalls
    /\ \E r \in Responses :
         \E out \in {schedule(r)} : Network("schedule", NoArg, r, NoResponse, out)

ChangeSchedule ==
    /\ calls < MaxCalls
    /\ \E k \in 1..Len(SampleEntries), r \in Responses :
         \E out \in {change_schedule(SampleEntries[k], r)} :
            Network("change_schedule", [entry |-> k], r, NoResponse, out)

DeleteSchedule ==
    /\ calls < MaxCalls
    /\ \E event \in Inputs, param \in {""}, r \in Responses :
         \E out \in {delete_schedule(Name(event), Name(param), r)} :
            Network("delete_schedule", [event |-> event, param |-> param], r, NoResponse, out)

DoorbellState ==
    /\ calls < MaxCalls
    /\ \E r \in Responses :
         \E out \in {doorbell_state(r)} : Network("doorbell_state", NoArg, r, NoResponse, out)

MotionSensorState ==
    /\ calls < MaxCalls
    /\ \E r \in Responses :
         \E out \in {motion_sensor_state(r)} :
            Network("motion_sensor_state", NoArg, r, NoResponse, out)

Info ==
    /\ calls < MaxCalls
    /\ \E r \in Responses :
         \E out \in {info(r)} : Network("info", NoArg, r, NoResponse, out)

Favorites ==
    /\ calls < MaxCalls
    /\ \E r \in Responses :
         \E out \in {favorites(r)} : Network("favorites", NoArg, r, NoResponse, out)

ChangeFavorite ==
    /\ calls < MaxCalls
    /\ \E fav_type \in {"sip"}, k \in 1..Len(FavIds), r \in Responses :
         \E out \in {change_favorite(Name(fav_type), Name("door"), Name("http://host/"),
                                     FavIds[k], r)} :
            Network("change_favorite", [fav_id |-> FavIds[k]], r, NoResponse, out)

DeleteFavorite ==
    /\ calls < MaxCalls
    /\ \E fav_type \in {"http"}, k \in 2..3, r \in Responses :
         \E out \in {delete_favorite(Name(fav_type), FavIds[k], r)} :
            Network("delete_favorite", [fav_id |-> FavIds[k]], r, NoResponse, out)

LiveVideoUrl ==
    /\ last' = Local("live_video_url", NoArg, live_video_url)
    /\ UNCHANGED <<calls, requests, schedVars>>

LiveImageUrl ==
    /\ last' = Local("live_image_url", NoArg, live_image_url)
    /\ UNCHANGED <<calls, requests, schedVars>>

Html5ViewerUrl ==
    /\ last' = Local("html5_viewer_url", NoArg, html5_viewer_url)
    /\ UNCHANGED <<calls, requests, schedVars>>

HistoryImageUrl ==
    /\ \E index \in 1..2, event \in Inputs :
         last' = Local("history_image_url", [index |-> index, event |-> event],
                       history_image_url(PyNum(index), Name(event)))
    /\ UNCHANGED <<calls, requests, schedVars>>

\* db.rtsp_live_video_url: the method is a property, and reading a property calls it
\* with self alone, so http is its default whichever transport the caller wants
RtspLiveVideoUrl ==
    /\ \E want \in BOOLEAN :
         last' = Local("rtsp_live_video_url", [http |-> want], rtsp_live_video_url(FALSE))
    /\ UNCHANGED <<calls, requests, schedVars>>

ScheduleInit ==
    /\ entry = None
    /\ origin = "none"
    /\ hist = <<>>
    /\ raw = None
    /\ result = Unset
    /\ exported = None
    /\ reparsed = Unset

ClientInit ==
    /\ calls = 0
    /\ requests = 0
    /\ last = NoLast

Init == ScheduleInit /\ ClientInit

Next ==
    \/ Construct
    \/ AppendOutput
    \/ SetOnce
    \/ AddRange
    \/ AddWeekday
    \/ ParseDevice
    \/ Export
    \/ Reparse

\* the schedule model
Spec == Init /\ [][Next]_vars

ClientNext ==
    \/ Ready
    \/ EnergizeRelay
    \/ TurnLightOn
    \/ Schedule
    \/ ChangeSchedule
    \/ DeleteSchedule
    \/ DoorbellState
    \/ MotionSensorState
    \/ Info
    \/ Favorites
    \/ ChangeFavorite
    \/ DeleteFavorite
    \/ LiveVideoUrl
    \/ LiveImageUrl
    \/ Html5ViewerUrl
    \/ HistoryImageUrl
    \/ RtspLiveVideoUrl

\* the device client
ClientSpec == Init /\ [][ClientNext]_vars

\* ------------------------------------------------- schedule model: claims
RawOutputs == raw.v["output"].v
ExportedOutputs == exported.v["output"].v
Exported == exported.t = "dict"
Parsed == origin = "parse" /\ result.exc = "None"

\* the wire form of RangeArgs, written out: 1000 and 2000; 7.5 truncated and "042"
RangeStrs ==
    <<  [from |-> PyStr(<<"1", "0", "0", "0">>), to |-> PyStr(<<"2", "0", "0", "0">>)],
        [from |-> PyStr(<<"7">>), to |-> PyStr(<<"4", "2">>)]  >>
\* the list a field holds after the calls ks, in call order
RangeList(ks) == PyList([j \in 1..Len(ks) |-> PyDict(RangeStrs[ks[j]])])

SameSchedule(a, b) ==
    /\ a.once = b.once
    /\ a.from_to = b.from_to
    /\ a.weekdays = b.weekdays

SameOutput(a, b) ==
    /\ a.enabled = b.enabled
    /\ a.event = b.event
    /\ a.param = b.param
    /\ SameSchedule(a.schedule, b.schedule)

SameEntry(a, b) ==
    /\ a.input = b.input
    /\ a.param = b.param
    /\ Len(a.output) = Len(b.output)
    /\ \A i \in 1..Len(a.output) : i <= Len(b.output) => SameOutput(a.output[i], b.output[i])

\* C1: parsing the export of an entry built with the constructors and set_once,
\* add_range and add_weekday yields an entry with the same input, param, number and
\* order of outputs and, per output, the same enabled, event, param, once, from_to
\* and weekdays.
C1_RoundTrip ==
    (origin = "ctor" /\ reparsed.exc # "unset") =>
        /\ reparsed.exc = "None"
        /\ SameEntry(entry, reparsed.v)

\* C7: on a schedule built with set_once, add_range and add_weekday, each field is
\* set iff its mutator was called, holds exactly the ranges added to it in call
\* order whatever was called on the other two fields, and the export has the key
\* `once`, `from-to`, `weekdays` iff that mutator was called, with the same lists and
\* never a null or an empty list.
C7_ExportKeysFollowCalls ==
    origin = "ctor" =>
        \A i \in 1..Len(entry.output) :
            LET s == entry.output[i].schedule
                h == hist[i]
            IN  /\ (s.once.t = "dict") = h.once
                /\ (s.once.t = "None") = ~h.once
                /\ s.from_to = IF h.ranges = <<>> THEN None ELSE RangeList(h.ranges)
                /\ s.weekdays = IF h.weekdays = <<>> THEN None ELSE RangeList(h.weekdays)
                /\ Exported =>
                    LET x == ExportedOutputs[i].v["schedule"].v
                    IN  /\ ("once" \in DOMAIN x) = h.once
                        /\ ("from-to" \in DOMAIN x) = (h.ranges # <<>>)
                        /\ ("weekdays" \in DOMAIN x) = (h.weekdays # <<>>)
                        /\ "once" \in DOMAIN x =>
                              x["once"].t = "dict" /\ x["once"].v.valid \in {0, 1}
                        /\ "from-to" \in DOMAIN x => x["from-to"] = RangeList(h.ranges)
                        /\ "weekdays" \in DOMAIN x => x["weekdays"] = RangeList(h.weekdays)

\* C7 witness: an exported output on which set_once(False) and two different ranges
\* were added, second sample first, and no weekday
C7_Witness ==
    /\ origin = "ctor"
    /\ Exported
    /\ \E i \in 1..Len(entry.output) :
        /\ hist[i].once
        /\ entry.output[i].schedule.once = PyDict([valid |-> 0])
        /\ hist[i].ranges = <<2, 1>>
        /\ hist[i].weekdays = <<>>
        /\ DOMAIN ExportedOutputs[i].v["schedule"].v = {"once", "from-to"}

RequiredPresent ==
    /\ {"input", "param", "output"} \subseteq DOMAIN raw.v
    /\ \A i \in 1..Len(RawOutputs) :
          {"event", "param", "schedule"} \subseteq DOMAIN RawOutputs[i].v

\* C8: parse raises a missing-key error when the entry's `input` or an output's
\* `event` is absent; an absent `once`, `from-to` or `weekdays` raises nothing and
\* leaves the field of that name unset on the parsed object.
C8_ParseStrictOnRequired ==
    origin = "parse" =>
        /\ "input" \notin DOMAIN raw.v => result.exc = "KeyError"
        /\ ("output" \in DOMAIN raw.v
                /\ \E i \in 1..Len(RawOutputs) : "event" \notin DOMAIN RawOutputs[i].v)
              => result.exc = "KeyError"
        /\ RequiredPresent =>
            /\ result.exc = "None"
            /\ Len(entry.output) = Len(RawOutputs)
            /\ \A i \in 1..Len(RawOutputs) :
                LET keys == DOMAIN RawOutputs[i].v["schedule"].v
                    s == entry.output[i].schedule
                IN  /\ "once" \notin keys => s.once = None
                    /\ "from-to" \notin keys => s.from_to = None
                    /\ "weekdays" \notin keys => s.weekdays = None

\* C8 witness: a parse that succeeded on an output with none of the optional keys,
\* and (in another run) one that raised on a missing event
C8_WitnessOptional ==
    /\ origin = "parse"
    /\ RequiredPresent
    /\ result.exc = "None"
    /\ \E i \in 1..Len(RawOutputs) :
          /\ DOMAIN RawOutputs[i].v["schedule"].v = {}
          /\ entry.output[i].schedule = NewSchedule

\* C10: an output's enabled is true when not supplied, and exports "1", both when
\* the constructor got no enabled argument and when the parsed JSON object has no
\* `enabled` key; an output whose enabled is false exports "0".
C10_EnabledDefaultsTrue ==
    /\ origin = "ctor" =>
          \A i \in 1..Len(entry.output) :
              ~hist[i].enabledGiven =>
                  /\ entry.output[i].enabled = PyBool(TRUE)
                  /\ Exported => ExportedOutputs[i].v["enabled"] = PyStr(<<"1">>)
    /\ Parsed =>
          \A i \in 1..Len(entry.output) :
              "enabled" \notin DOMAIN RawOutputs[i].v =>
                  /\ entry.output[i].enabled = PyBool(TRUE)
                  /\ Exported => ExportedOutputs[i].v["enabled"] = PyStr(<<"1">>)
    /\ (entry.t = "entry" /\ Exported) =>
          \A i \in 1..Len(entry.output) :
              entry.output[i].enabled = PyBool(FALSE) =>
                  ExportedOutputs[i].v["enabled"] = PyStr(<<"0">>)

\* --------------------------------------------------------- client: claims
\* the status codes of Statuses, as numbers
StatusCodes == <<200, 401>>
\* the integer return code carried by the first three sample bodies: "1", "0" and 2
IntCodes == <<1, 0, 2>>
\* the sample bodies whose value after the first "=" is 1: doorbell=1, a=1=0, and
\* doorbell=1 followed by a line end; every other sample either has no "=" or has
\* another value (doorbell=0, and doorbell= with nothing after it)
SensorOne == {9, 13, 14}

NotJson(b) == Bodies[b].json.exc = "ValueError"
\* a JSON object without "BHA", or whose "BHA" object has no "RETURNCODE"
LacksReturnCode(b) ==
    /\ Bodies[b].json.exc = "None"
    /\ Bodies[b].json.v.t = "dict"
    /\ \/ "BHA" \notin DOMAIN Bodies[b].json.v.v
       \/ "RETURNCODE" \notin DOMAIN Bodies[b].json.v.v["BHA"].v

\* C2: every network operation issues exactly one HTTP request, so the requests
\* handed to the transport number the network operations invoked.
C2_OneRequestPerCall == requests = calls

\* C3: ready() returns (false, status) and raises nothing when the body is not JSON
\* or is JSON without the BHA/RETURNCODE key, and with an integer return code it
\* returns ready exactly when the code is 1.
C3_ReadyAbsorbsDecodingFailures ==
    last.op = "ready" =>
        /\ (NotJson(last.r2.b) \/ LacksReturnCode(last.r2.b)) =>
              /\ last.exc = "None"
              /\ last.ret.t = "tuple"
              /\ last.ret.v[1] = PyBool(FALSE)
              /\ last.ret.v[2] \in {PyNum(StatusCodes[last.r1.s]), PyNum(StatusCodes[last.r2.s])}
        /\ last.r2.b \in 1..Len(IntCodes) =>
              /\ last.exc = "None"
              /\ last.ret.t = "tuple"
              /\ last.ret.v[1] = PyBool(IntCodes[last.r2.b] = 1)

\* C4: doorbell_state() and motion_sensor_state() split the body on "=" and compare
\* the value to 1: a body key=1 gives true, a body key=v with v different from 1
\* gives false, and a body without "=" gives false; nothing is raised.
C4_SensorStateDecoding ==
    last.op \in {"doorbell_state", "motion_sensor_state"} =>
        /\ last.exc = "None"
        /\ last.ret = PyBool(last.r1.b \in SensorOne)

QueryKeys(url) == [i \in 1..Len(url.query) |-> url.query[i].k]

\* C5: change_favorite puts `id` in the query iff the caller supplied a favorite id,
\* id 0 included, and without an id the query holds action, type, title and value.
C5_IdIffSupplied ==
    last.op = "change_favorite" =>
        LET supplied == last.arg.fav_id.t # "None"
            keys == QueryKeys(last.url)
        IN  /\ (\E i \in 1..Len(keys) : keys[i] = "id") = supplied
            /\ ~supplied => keys = <<"action", "type", "title", "value">>

\* C6: every URL has port 80, except the RTSP live-video URL, whose port is 8557
\* when the caller asks for RTSP over HTTP and 554 otherwise.
C6_Ports ==
    /\ last.op \notin {"none", "rtsp_live_video_url"} => last.url.port = 80
    /\ last.op = "rtsp_live_video_url" =>
          last.url.port = IF last.arg.http THEN 8557 ELSE 554

====
